---- MODULE Spec2Model ----
(***************************************************************************)
(* complgen: the matcher / completer of src/complete.rs, driven by a DFA   *)
(* over argument words.                                                    *)
(*                                                                         *)
(* Strings are sequences of byte values, so that starts_with, lines,       *)
(* split_once and the ordering of String are computed, not assumed.        *)
(* Option<T> is a sequence of length at most one.                          *)
(* A HashMap is the sequence of its entries in iteration order, with       *)
(* pairwise distinct keys.                                                 *)
(***************************************************************************)
EXTENDS Integers, Sequences, FiniteSets, TLC

VARIABLES
    grammar,                \* the statements the DFA was compiled from, if any
    dfa,                    \* the DFA handed to get_completions
    inputs,                 \* words_before_cursor
    completed_word_index,   \* index of the word being completed
    backtracking_stack,     \* get_match_final_state: Vec<(usize, StateId)>
    input_index,            \* get_match_final_state: index of the entry popped last
    current_state,          \* get_match_final_state: state of the entry popped last
    state_id,               \* Option<StateId> returned by get_match_final_state
    shell,                  \* result of each Shell call made by get_completions
    per_input,              \* get_completions: the Vec mapped from each transition
    completions,            \* Vec<(String, String)> returned by get_completions
    pc,                     \* "search", "complete", "done" for get_completions,
                            \* "panic" for an index out of bounds;
                            \* "expr", "parse", "validate" and their "_done";
                            \* "resolve" for resolve_variables
    source,                 \* the text handed to expr or to parse
    parsed,                 \* what expr or parse returned
    validated,              \* what Grammar::validate returned
    resolving               \* resolve_variables: the expression, the map and
                            \* what each call returned

vars == <<grammar, dfa, inputs, completed_word_index, backtracking_stack, input_index,
          current_state, state_id, shell, per_input, completions, pc,
          source, parsed, validated, resolving>>

-----------------------------------------------------------------------------
(* Bounds *)

MaxWords == 2
MaxTokens == 3
MaxStatements == 3
MaxCalls == 2

-----------------------------------------------------------------------------
(* Generic helpers *)

Min(a, b) == IF a <= b THEN a ELSE b

Range(s) == {s[k] : k \in 1..Len(s)}

None == <<>>
Some(x) == <<x>>

RECURSIVE Flatten(_)
Flatten(ss) == IF ss = <<>> THEN <<>> ELSE Head(ss) \o Flatten(Tail(ss))

SeqsUpTo(S, n) == UNION {[1..k -> S] : k \in 0..n}

-----------------------------------------------------------------------------
(* Strings *)

NL == 10
TAB == 9
CR == 13

EmptyStr == <<>>

\* str::starts_with
starts_with(s, prefix) ==
    /\ Len(prefix) <= Len(s)
    /\ SubSeq(s, 1, Len(prefix)) = prefix

\* Ord for String: bytewise lexicographic
StrLess(a, b) ==
    \/ /\ Len(a) < Len(b)
       /\ SubSeq(b, 1, Len(a)) = a
    \/ \E k \in 1..Min(Len(a), Len(b)) :
          /\ SubSeq(a, 1, k - 1) = SubSeq(b, 1, k - 1)
          /\ a[k] < b[k]

\* Ord for (String, String): lexicographic on the components
PairLess(p, q) ==
    \/ StrLess(p[1], q[1])
    \/ p[1] = q[1] /\ StrLess(p[2], q[2])

PairLeq(p, q) == p = q \/ PairLess(p, q)

\* position of the first occurrence of byte c in s, 0 when absent
RECURSIVE FindFrom(_, _, _)
FindFrom(s, c, k) ==
    IF k > Len(s) THEN 0
    ELSE IF s[k] = c THEN k
    ELSE FindFrom(s, c, k + 1)

Find(s, c) == FindFrom(s, c, 1)

\* str::split_once("\t"): Some((before, after)) at the first tab
split_once_tab(line) ==
    LET k == Find(line, TAB)
    IN  IF k = 0 THEN None
        ELSE Some(<<SubSeq(line, 1, k - 1), SubSeq(line, k + 1, Len(line))>>)

StripCR(line) ==
    IF Len(line) > 0 /\ line[Len(line)] = CR
    THEN SubSeq(line, 1, Len(line) - 1)
    ELSE line

\* str::lines: split at "\n" or "\r\n"; a final line ending adds no line
RECURSIVE lines(_)
lines(s) ==
    IF s = <<>> THEN <<>>
    ELSE LET k == Find(s, NL)
         IN  IF k = 0 THEN <<s>>
             ELSE <<StripCR(SubSeq(s, 1, k - 1))>> \o lines(SubSeq(s, k + 1, Len(s)))

\* slice::sort_unstable on (String, String): the sorted permutation
RECURSIVE InsertSorted(_, _)
InsertSorted(sorted, x) ==
    IF sorted = <<>> THEN <<x>>
    ELSE IF PairLeq(x, Head(sorted)) THEN <<x>> \o sorted
    ELSE <<Head(sorted)>> \o InsertSorted(Tail(sorted), x)

\* sort_unstable that leaves the vector as collected
sort_unstable_Unsorted(v) == v

RECURSIVE sort_unstable(_)
sort_unstable(v) ==
    IF v = <<>> THEN <<>>
    ELSE InsertSorted(sort_unstable(Tail(v)), Head(v))

-----------------------------------------------------------------------------
(* Input: the label of a DFA transition *)

\* Input::Literal(token, description)
Literal(tok, description) ==
    [kind |-> "Literal", text |-> tok, desc |-> description]

\* Input::Any(MatchAnythingInput::Command(command))
AnyCommand(command) ==
    [kind |-> "Command", text |-> command, desc |-> None]

\* Input::Any(MatchAnythingInput::Nonterminal(name))
AnyNonterminal(name) ==
    [kind |-> "Nonterminal", text |-> name, desc |-> None]

\* Input::matches_anything
matches_anything(input) == input.kind \in {"Command", "Nonterminal"}

str_PATH == <<80, 65, 84, 72>>
str_DIRECTORY == <<68, 73, 82, 69, 67, 84, 79, 82, 89>>

-----------------------------------------------------------------------------
(* DFA: [starting_state, transitions], transitions a map from StateId to   *)
(* a map from Input to StateId                                             *)

\* dfa.transitions.get(&state).unwrap_or(&HashMap::default())
TransitionsFrom(d, state) ==
    IF state \in DOMAIN d.transitions THEN d.transitions[state] ELSE <<>>

-----------------------------------------------------------------------------
(* get_match_final_state *)

InitialStack(d) == <<<<0, d.starting_state>>>>

\* ReachedIndex without the check against completed_word_index
ReachedIndex_AllWords(idx, words, cwi) == idx >= Len(words)

\* ReachedIndex without the check against inputs.len()
ReachedIndex_CursorOnly(idx, words, cwi) == idx >= cwi

\* the two early returns of the loop body
ReachedIndex(idx, words, cwi) ==
    \/ idx >= Len(words)
    \/ idx >= cwi

\* PushAny without the step to the next word
PushAny_SameIndex(trans, idx) ==
    LET sel == SelectSeq(trans, LAMBDA t : matches_anything(t.input))
    IN  [k \in 1..Len(sel) |-> <<idx, sel[k].to>>]

\* PushAny that lets only a command consume the word
PushAny_CommandOnly(trans, idx) ==
    LET sel == SelectSeq(trans, LAMBDA t : t.input.kind = "Command")
    IN  [k \in 1..Len(sel) |-> <<idx + 1, sel[k].to>>]

\* PushAny that lets only a nonterminal consume the word
PushAny_NonterminalOnly(trans, idx) ==
    LET sel == SelectSeq(trans, LAMBDA t : t.input.kind = "Nonterminal")
    IN  [k \in 1..Len(sel) |-> <<idx + 1, sel[k].to>>]

\* first for loop: one entry per Any transition, in iteration order
PushAny(trans, idx) ==
    LET sel == SelectSeq(trans, LAMBDA t : matches_anything(t.input))
    IN  [k \in 1..Len(sel) |-> <<idx + 1, sel[k].to>>]

\* inputs[input_index] panics when input_index is out of bounds; the second
\* for loop reads it once for each Literal transition
IndexOutOfBounds(trans, words, idx) ==
    /\ idx >= Len(words)
    /\ \E k \in 1..Len(trans) : trans[k].input.kind = "Literal"

\* PushLiteral with the word taken as a prefix of the token
PushLiteral_StartsWith(trans, words, idx) ==
    LET sel == SelectSeq(trans, LAMBDA t : /\ t.input.kind = "Literal"
                                           /\ starts_with(t.input.text, words[idx + 1]))
    IN  [k \in 1..Len(sel) |-> <<idx + 1, sel[k].to>>]

\* second for loop: one entry per Literal transition equal to the word
PushLiteral(trans, words, idx) ==
    LET sel == SelectSeq(trans, LAMBDA t : /\ t.input.kind = "Literal"
                                           /\ t.input.text = words[idx + 1])
    IN  [k \in 1..Len(sel) |-> <<idx + 1, sel[k].to>>]

\* Expand that forgets the entries below the one popped
Expand_NoBacktrack(d, words, stack) ==
    LET top == stack[Len(stack)]
        trans == TransitionsFrom(d, top[2])
    IN  PushAny(trans, top[1]) \o PushLiteral(trans, words, top[1])

\* Expand with the two for loops merged into one
Expand_OneLoop(d, words, stack) ==
    LET top == stack[Len(stack)]
        rest == SubSeq(stack, 1, Len(stack) - 1)
        trans == TransitionsFrom(d, top[2])
        sel == SelectSeq(trans, LAMBDA t : \/ matches_anything(t.input)
                                           \/ t.input.text = words[top[1] + 1])
    IN  rest \o [k \in 1..Len(sel) |-> <<top[1] + 1, sel[k].to>>]

\* one iteration of the while loop that does not return: the stack after
\* the pop and the two for loops
Expand(d, words, stack) ==
    LET top == stack[Len(stack)]
        rest == SubSeq(stack, 1, Len(stack) - 1)
        trans == TransitionsFrom(d, top[2])
    IN  rest \o PushAny(trans, top[1]) \o PushLiteral(trans, words, top[1])

\* the whole function, as the value it returns
RECURSIVE RunSearch(_, _, _, _)
RunSearch(d, words, cwi, stack) ==
    IF stack = <<>> THEN None
    ELSE IF ReachedIndex(stack[Len(stack)][1], words, cwi)
         THEN Some(stack[Len(stack)][2])
         ELSE RunSearch(d, words, cwi, Expand(d, words, stack))

get_match_final_state(d, words, cwi) ==
    RunSearch(d, words, cwi, InitialStack(d))

-----------------------------------------------------------------------------
(* Shell: the result of a call is an input of the program *)

ShellErr == [ok |-> FALSE, stdout |-> EmptyStr]
ShellOk(out) == [ok |-> TRUE, stdout |-> out]

\* the transitions for which get_completions_for_input calls the shell
CallsShell(input) ==
    \/ input.kind = "Command"
    \/ input.kind = "Nonterminal" /\ input.text \in {str_PATH, str_DIRECTORY}

\* what the shell may print
str_a == <<97>>
str_b == <<98>>
str_ba == <<98, 97>>
str_c == <<99>>
str_d == <<100>>
str_X == <<88>>
str_Y == <<89>>

\* nothing; "a"; "a" twice; "ba<TAB>c" then "a"; "ba<TAB>c" with no line ending
Stdouts ==
    {EmptyStr,
     str_a \o <<NL>>,
     str_a \o <<NL>> \o str_a \o <<NL>>,
     str_ba \o <<TAB>> \o str_c \o <<NL>> \o str_a \o <<NL>>,
     str_ba \o <<TAB>> \o str_c}

ShellResults == {ShellErr} \cup {ShellOk(out) : out \in Stdouts}

\* every way the calls made for the inputs in calls can turn out
ShellOutcomes(calls) ==
    {{<<c, f[c]>> : c \in calls} : f \in [calls -> ShellResults]}

-----------------------------------------------------------------------------
(* get_completions_for_input and get_completions *)

\* the closure without the split at the tab
SplitLine_WholeLine(line) == <<line, EmptyStr>>

\* the closure mapped over stdout.lines() for a Command
SplitLine(line) ==
    LET sp == split_once_tab(line)
    IN  IF sp # None THEN <<sp[1][1], sp[1][2]>> ELSE <<line, EmptyStr>>

\* result.retain(|(completion, _)| completion.starts_with(prefix))
Retain(result, prefix) ==
    SelectSeq(result, LAMBDA c : starts_with(c[1], prefix))

\* the Literal arm without the test on the prefix
LiteralCompletions_NoPrefix(literal, description, prefix) ==
    <<<<literal, IF description = None THEN EmptyStr ELSE description[1]>>>>

\* the Literal arm that hands back what was typed when the token does not fit
LiteralCompletions_EchoPrefix(literal, description, prefix) ==
    IF starts_with(literal, prefix)
    THEN <<<<literal, IF description = None THEN EmptyStr ELSE description[1]>>>>
    ELSE <<<<prefix, EmptyStr>>>>

\* the Literal arm with the pair the other way round
LiteralCompletions_Swapped(literal, description, prefix) ==
    IF starts_with(literal, prefix)
    THEN <<<<IF description = None THEN EmptyStr ELSE description[1], literal>>>>
    ELSE <<>>

\* the Input::Literal(literal, description) arm
LiteralCompletions(literal, description, prefix) ==
    IF starts_with(literal, prefix)
    THEN <<<<literal, IF description = None THEN EmptyStr ELSE description[1]>>>>
    ELSE <<>>

\* sh is the result of the shell call this input makes, if it makes one
get_completions_for_input(input, prefix, sh) ==
    CASE input.kind = "Literal" ->
            LiteralCompletions(input.text, input.desc, prefix)
      [] input.kind = "Command" ->
            IF ~sh.ok THEN <<>>
            ELSE LET ls == lines(sh.stdout)
                     result == [k \in 1..Len(ls) |-> SplitLine(ls[k])]
                 IN  IF prefix # EmptyStr THEN Retain(result, prefix) ELSE result
      [] input.kind = "Nonterminal" /\ input.text \in {str_PATH, str_DIRECTORY} ->
            IF ~sh.ok THEN <<>>
            ELSE LET ls == lines(sh.stdout)
                 IN  [k \in 1..Len(ls) |-> <<ls[k], EmptyStr>>]
      [] OTHER -> <<>>

\* the prefix computed at the top of get_completions
Prefix(words, cwi) ==
    IF cwi < Len(words) THEN words[cwi + 1] ELSE EmptyStr

\* sh is a set of <<input, result>>: the result of the call made for input
ShellResult(sh, input) ==
    IF \E p \in sh : p[1] = input
    THEN (CHOOSE p \in sh : p[1] = input)[2]
    ELSE ShellErr

\* PerInput that gives up on every transition once one shell call has failed
PerInput_AbortOnFailure(trans, prefix, sh) ==
    [k \in 1..Len(trans) |->
        IF \E j \in 1..Len(trans) :
              CallsShell(trans[j].input) /\ ~ShellResult(sh, trans[j].input).ok
        THEN <<>>
        ELSE get_completions_for_input(trans[k].input, prefix,
                                       ShellResult(sh, trans[k].input))]

\* .iter().map(|(input, _)| get_completions_for_input(input, prefix, shell)):
\* one Vec per outgoing transition, in iteration order
PerInput(trans, prefix, sh) ==
    [k \in 1..Len(trans) |->
        get_completions_for_input(trans[k].input, prefix,
                                  ShellResult(sh, trans[k].input))]

\* get_completions once the cursor state is known: flatten, collect, sort
CompletionsFrom(d, state, words, cwi, sh) ==
    sort_unstable(Flatten(PerInput(TransitionsFrom(d, state),
                                   Prefix(words, cwi), sh)))

\* the whole of get_completions, as the value it returns
get_completions(d, words, cwi, sh) ==
    LET st == get_match_final_state(d, words, cwi)
    IN  IF st = None THEN <<>>
        ELSE CompletionsFrom(d, st[1], words, cwi, sh)

-----------------------------------------------------------------------------
(* Expr and Statement: the grammar as parsed *)

\* Expr::Literal
ExprLiteral(s) == [type |-> "Literal", s |-> s, children |-> <<>>]

\* Expr::Variable
ExprVariable(s) == [type |-> "Variable", s |-> s, children |-> <<>>]

\* Expr::Sequence
ExprSequence(children) == [type |-> "Sequence", s |-> EmptyStr, children |-> children]

\* Expr::Alternative
ExprAlternative(children) == [type |-> "Alternative", s |-> EmptyStr, children |-> children]

\* Expr::Optional
ExprOptional(child) == [type |-> "Optional", s |-> EmptyStr, children |-> <<child>>]

\* Expr::Many1
ExprMany1(child) == [type |-> "Many1", s |-> EmptyStr, children |-> <<child>>]

\* Statement::CallVariant
CallVariant(lhs, rhs) == [stmt |-> "CallVariant", name |-> lhs, rhs |-> rhs]

\* Statement::VariableDefinition
VariableDefinition(symbol, rhs) == [stmt |-> "VariableDefinition", name |-> symbol, rhs |-> rhs]

\* resolve_variables: a Variable that vars defines is replaced by its
\* definition as vars holds it, the rest of the tree is rebuilt around it
RECURSIVE resolve_variables(_, _)
RECURSIVE resolve_variables_Rescan(_, _)

\* resolve_variables that looks into a replacement that is a Variable
resolve_variables_Rescan(expr, variables) ==
    CASE expr.type = "Literal" -> expr
      [] expr.type = "Variable" ->
            IF expr.s \notin DOMAIN variables THEN expr
            ELSE IF /\ variables[expr.s].type = "Variable"
                    /\ variables[expr.s].s \in DOMAIN variables
                 THEN variables[variables[expr.s].s]
                 ELSE variables[expr.s]
      [] OTHER ->
            [type |-> expr.type, s |-> expr.s,
             children |-> [k \in 1..Len(expr.children) |->
                              resolve_variables_Rescan(expr.children[k], variables)]]

resolve_variables(expr, variables) ==
    CASE expr.type = "Literal" -> expr
      [] expr.type = "Variable" ->
            IF expr.s \in DOMAIN variables THEN variables[expr.s] ELSE expr
      [] OTHER ->
            [type |-> expr.type, s |-> expr.s,
             children |-> [k \in 1..Len(expr.children) |->
                              resolve_variables(expr.children[k], variables)]]

RECURSIVE any_child_replaced(_, _)

\* any_child_replaced that takes every node but a Literal for a new one
any_child_replaced_Rebuilds(expr, variables) == expr.type # "Literal"

\* !Rc::ptr_eq(&expr, &resolve_variables(expr, vars)): a node is new when
\* it is a Variable replaced by the node of the map, or has a new child
any_child_replaced(expr, variables) ==
    CASE expr.type = "Literal" -> FALSE
      [] expr.type = "Variable" -> expr.s \in DOMAIN variables
      [] OTHER ->
            \E k \in 1..Len(expr.children) :
                any_child_replaced(expr.children[k], variables)

\* the names of the variables an expression mentions
RECURSIVE VariablesOf(_)
VariablesOf(e) ==
    CASE e.type = "Literal" -> {}
      [] e.type = "Variable" -> {e.s}
      [] OTHER -> UNION {VariablesOf(e.children[k]) : k \in 1..Len(e.children)}

\* the defined variables, each after the defined variables it mentions
RECURSIVE TopologicalOrder(_, _)
TopologicalOrder(variables, todo) ==
    IF todo = {} THEN <<>>
    ELSE LET v == CHOOSE x \in todo : VariablesOf(variables[x]) \cap todo = {}
         IN  <<v>> \o TopologicalOrder(variables, todo \ {v})

\* the loop of validate over the ordered variables
RECURSIVE ResolveInOrder(_, _)
ResolveInOrder(variables, order) ==
    IF order = <<>> THEN variables
    ELSE ResolveInOrder(
             [variables EXCEPT ![Head(order)] = resolve_variables(@, variables)],
             Tail(order))

\* the validated grammar of a list of statements with one command name and
\* no cycle among its variables: the command, and the call variants with
\* every defined variable replaced by its definition
ValidGrammar_from_grammar(statements) ==
    LET calls == SelectSeq(statements, LAMBDA st : st.stmt = "CallVariant")
        defs == SelectSeq(statements, LAMBDA st : st.stmt = "VariableDefinition")
        variables == [n \in {defs[k].name : k \in 1..Len(defs)} |->
                         (CHOOSE d \in Range(defs) : d.name = n).rhs]
        resolved == ResolveInOrder(variables,
                                   TopologicalOrder(variables, DOMAIN variables))
        expr == IF Len(calls) = 1
                THEN calls[1].rhs
                ELSE ExprAlternative([k \in 1..Len(calls) |-> calls[k].rhs])
    IN  [command |-> calls[1].name, expr |-> resolve_variables(expr, resolved)]

-----------------------------------------------------------------------------
(* The parser of grammar.rs.  A parser takes the text s and the number i of *)
(* bytes consumed so far; IResult is a record: ok, the number of bytes      *)
(* consumed after it, and the value parsed                                  *)

LT == 60
GT == 62
LBRACKET == 91
RBRACKET == 93
LPAREN == 40
RPAREN == 41
DOT == 46
PIPE == 124
SEMICOLON == 59
BACKSLASH == 92
SPACE == 32
COLON == 58
EQUALS == 61
MINUS == 45
PLUS == 43
UNDERSCORE == 95

Err == [ok |-> FALSE, pos |-> 0, value |-> <<>>]
Ok(pos, value) == [ok |-> TRUE, pos |-> pos, value |-> value]

\* char(c): the next byte is c
char(s, i, c) == i < Len(s) /\ s[i + 1] = c

\* tag(t): the next bytes are t
tag(s, i, t) == i + Len(t) <= Len(s) /\ SubSeq(s, i + 1, i + Len(t)) = t

\* multispace0 never fails: the position after the blanks
RECURSIVE multispace0(_, _)
multispace0(s, i) ==
    IF i < Len(s) /\ s[i + 1] \in {SPACE, TAB, NL, CR}
    THEN multispace0(s, i + 1)
    ELSE i

is_terminal_char(c) ==
    /\ c < 128
    /\ \/ c \in 48..57
       \/ c \in 65..90
       \/ c \in 97..122
       \/ c = MINUS
       \/ c = PLUS
       \/ c = UNDERSCORE

\* one_of(r#"()[]<>.|;"#)
one_of == {LPAREN, RPAREN, LBRACKET, RBRACKET, LT, GT, DOT, PIPE, SEMICOLON}

\* escaped(take_while1(is_terminal_char), '\\', one_of(..)) from i, having
\* reached j: the position where it stops, or -1 when it fails
RECURSIVE escaped(_, _, _)
escaped(s, i, j) ==
    IF j >= Len(s) THEN j
    ELSE IF is_terminal_char(s[j + 1]) THEN escaped(s, i, j + 1)
    ELSE IF s[j + 1] = BACKSLASH
         THEN IF j + 1 >= Len(s) THEN -1
              ELSE IF s[j + 2] \in one_of THEN escaped(s, i, j + 2)
              ELSE -1
    ELSE IF j = i THEN -1
    ELSE j

terminal(s, i) ==
    LET j == escaped(s, i, i)
    IN  IF j = -1 \/ j = i THEN Err ELSE Ok(j, SubSeq(s, i + 1, j))

\* alt: the first of two results that is Ok
alt(a, b) == IF a.ok THEN a ELSE b

terminal_expr(s, i) ==
    LET literal == terminal(s, i)
    IN  IF literal.ok THEN Ok(literal.pos, ExprLiteral(literal.value)) ELSE Err

\* is_not(">"): the position after the bytes that are not '>'
RECURSIVE is_not_gt(_, _)
is_not_gt(s, j) ==
    IF j < Len(s) /\ s[j + 1] # GT THEN is_not_gt(s, j + 1) ELSE j

symbol(s, i) ==
    IF ~char(s, i, LT) THEN Err
    ELSE LET j == is_not_gt(s, i + 1)
         IN  IF j = i + 1 \/ ~char(s, j, GT) THEN Err
             ELSE Ok(j + 1, SubSeq(s, i + 2, j))

symbol_expr(s, i) ==
    LET name == symbol(s, i)
    IN  IF name.ok THEN Ok(name.pos, ExprVariable(name.value)) ELSE Err

RECURSIVE expr(_, _)
RECURSIVE sequence_expr(_, _)
RECURSIVE alternative_expr(_, _)
RECURSIVE expr_no_alternative_no_sequence(_, _)
RECURSIVE alt_atom(_, _)
RECURSIVE optional_expr(_, _)
RECURSIVE parenthesized_expr(_, _)
RECURSIVE do_sequence_expr(_, _)
RECURSIVE do_alternative_expr(_, _)
RECURSIVE sequence_loop(_, _, _)
RECURSIVE alternative_loop(_, _, _)

\* multispace0 and char(c) after the expression e, whose value becomes value
closing(s, e, c, value) ==
    IF ~e.ok THEN Err
    ELSE IF char(s, multispace0(s, e.pos), c)
         THEN Ok(multispace0(s, e.pos) + 1, value)
         ELSE Err

\* the expression between the brackets, once parsed
optional_expr_inner(s, e) == closing(s, e, RBRACKET, ExprOptional(e.value))

optional_expr(s, i) ==
    IF ~char(s, i, LBRACKET) THEN Err
    ELSE optional_expr_inner(s, expr(s, multispace0(s, i + 1)))

\* the expression between the parentheses, once parsed
parenthesized_expr_inner(s, e) == closing(s, e, RPAREN, e.value)

parenthesized_expr(s, i) ==
    IF ~char(s, i, LPAREN) THEN Err
    ELSE parenthesized_expr_inner(s, expr(s, multispace0(s, i + 1)))

\* one_or_more_tag without the blanks before the dots
one_or_more_tag_NoBlanks(s, i) ==
    IF tag(s, i, <<DOT, DOT, DOT>>) THEN Ok(i + 3, <<>>) ELSE Err

one_or_more_tag(s, i) ==
    IF tag(s, multispace0(s, i), <<DOT, DOT, DOT>>)
    THEN Ok(multispace0(s, i) + 3, <<>>)
    ELSE Err

\* alt((symbol_expr, optional_expr, parenthesized_expr, terminal_expr))
alt_atom(s, i) ==
    alt(symbol_expr(s, i),
        alt(optional_expr(s, i),
            alt(parenthesized_expr(s, i), terminal_expr(s, i))))

\* the atom e, once parsed: Many1 of it when the dots follow
one_or_more(s, e) ==
    IF ~e.ok THEN Err
    ELSE LET dots == one_or_more_tag(s, e.pos)
         IN  IF dots.ok THEN Ok(dots.pos, ExprMany1(e.value)) ELSE e

expr_no_alternative_no_sequence(s, i) == one_or_more(s, alt_atom(s, i))

\* do_sequence_expr taking one factor at a time
do_sequence_expr_OneFactor(s, i) ==
    expr_no_alternative_no_sequence(s, multispace0(s, i))

do_sequence_expr(s, i) == sequence_expr(s, multispace0(s, i))

\* one turn of the loop of sequence_expr, right being what do_sequence_expr
\* returned
sequence_loop_turn(s, i, factors, right) ==
    IF right.ok THEN sequence_loop(s, right.pos, Append(factors, right.value))
    ELSE [pos |-> i, factors |-> factors]

\* the loop of sequence_expr: factors grows while do_sequence_expr succeeds
sequence_loop(s, i, factors) ==
    sequence_loop_turn(s, i, factors, do_sequence_expr(s, i))

\* the result of sequence_expr out of what its loop collected
sequence_result(l) ==
    Ok(l.pos, IF Len(l.factors) = 1 THEN l.factors[1] ELSE ExprSequence(l.factors))

\* sequence_expr after its first factor
sequence_expr_rest(s, left) ==
    IF ~left.ok THEN Err
    ELSE sequence_result(sequence_loop(s, left.pos, <<left.value>>))

sequence_expr(s, i) ==
    sequence_expr_rest(s, expr_no_alternative_no_sequence(s, i))

\* do_alternative_expr with a single atom to the right of the bar
do_alternative_expr_Atom(s, i) ==
    IF ~char(s, multispace0(s, i), PIPE) THEN Err
    ELSE expr_no_alternative_no_sequence(s, multispace0(s, multispace0(s, i) + 1))

do_alternative_expr(s, i) ==
    IF ~char(s, multispace0(s, i), PIPE) THEN Err
    ELSE sequence_expr(s, multispace0(s, multispace0(s, i) + 1))

\* one turn of the loop of alternative_expr, right being what
\* do_alternative_expr returned
alternative_loop_turn(s, i, elems, right) ==
    IF right.ok THEN alternative_loop(s, right.pos, Append(elems, right.value))
    ELSE [pos |-> i, elems |-> elems]

\* the loop of alternative_expr: elems grows while do_alternative_expr succeeds
alternative_loop(s, i, elems) ==
    alternative_loop_turn(s, i, elems, do_alternative_expr(s, i))

\* the result of alternative_expr out of what its loop collected
alternative_result(l) ==
    Ok(l.pos, IF Len(l.elems) = 1 THEN l.elems[1] ELSE ExprAlternative(l.elems))

\* alternative_expr after its first element
alternative_expr_rest(s, left) ==
    IF ~left.ok THEN Err
    ELSE alternative_result(alternative_loop(s, left.pos, <<left.value>>))

alternative_expr(s, i) == alternative_expr_rest(s, sequence_expr(s, i))

expr(s, i) == alternative_expr(s, i)

\* call_variant after the name and the blanks: the expression and the ';'
call_variant_rhs(s, name, e) ==
    closing(s, e, SEMICOLON, CallVariant(name.value, e.value))

\* call_variant after the name
call_variant_name(s, name) ==
    IF ~name.ok THEN Err
    ELSE IF multispace0(s, name.pos) = name.pos THEN Err
    ELSE call_variant_rhs(s, name, expr(s, multispace0(s, name.pos)))

call_variant(s, i) == call_variant_name(s, terminal(s, i))

\* variable_definition after "::=": the expression and the ';'
variable_definition_rhs(s, sym, e) ==
    closing(s, e, SEMICOLON, VariableDefinition(sym.value, e.value))

\* variable_definition after the symbol
variable_definition_symbol(s, sym) ==
    IF ~sym.ok THEN Err
    ELSE IF ~tag(s, multispace0(s, sym.pos), <<COLON, COLON, EQUALS>>) THEN Err
    ELSE variable_definition_rhs(s, sym,
             expr(s, multispace0(s, multispace0(s, sym.pos) + 3)))

variable_definition(s, i) == variable_definition_symbol(s, symbol(s, i))

statement(s, i) ==
    LET stmt == alt(call_variant(s, i), variable_definition(s, i))
    IN  IF stmt.ok THEN Ok(multispace0(s, stmt.pos), stmt.value) ELSE Err

RECURSIVE many0_statement(_, _, _)

\* many0 that fails when a statement fails
many0_turn_Fails(s, i, statements, r) ==
    IF r.ok THEN many0_statement(s, r.pos, Append(statements, r.value))
    ELSE IF i < Len(s) THEN Err ELSE Ok(i, statements)

\* one turn of many0, r being what statement returned
many0_turn(s, i, statements, r) ==
    IF r.ok THEN many0_statement(s, r.pos, Append(statements, r.value))
    ELSE Ok(i, statements)

\* many0(statement)
many0_statement(s, i, statements) ==
    many0_turn(s, i, statements, statement(s, i))

\* grammar: many0 returns what it collected when a statement fails, and
\* what is left is for parse to look at
grammar_statements(s) ==
    LET statements == many0_statement(s, multispace0(s, 0), <<>>)
    IN  IF statements.ok THEN Ok(multispace0(s, statements.pos), statements.value)
        ELSE Err

\* parse that does not look at what is left
parse_IgnoreTrailing(s) ==
    [ok |-> TRUE, error |-> "", rest |-> EmptyStr,
     statements |-> grammar_statements(s).value]

\* parse: Ok(Grammar { statements }), Err(Error::TrailingInput(rest)), or
\* Err(Error::ParsingError(_)) when grammar fails
parse(s) ==
    LET g == grammar_statements(s)
    IN  IF ~g.ok
        THEN [ok |-> FALSE, error |-> "ParsingError", rest |-> EmptyStr,
              statements |-> <<>>]
        ELSE IF g.pos < Len(s)
        THEN [ok |-> FALSE, error |-> "TrailingInput",
              rest |-> SubSeq(s, g.pos + 1, Len(s)), statements |-> <<>>]
        ELSE [ok |-> TRUE, error |-> "", rest |-> EmptyStr, statements |-> g.value]

-----------------------------------------------------------------------------
(* Grammar::validate *)

\* todo!(): the call never returns
get_topologically_ordered_variables(variable_definitions) ==
    [panic |-> TRUE, value |-> <<>>]

\* the outcome of validate: Ok(Validated { command, expr }), Err(Error), with
\* the names VaryingCommandNames carries, or a panic, with command and expr
\* as the locals of validate stood when it panicked
Outcome(outcome, error, names, command, e) ==
    [outcome |-> outcome, error |-> error, names |-> names,
     command |-> command, expr |-> e]

\* the left-hand sides of the call variants, before they are sorted
commands_AllStatements(statements) ==
    [k \in 1..Len(statements) |-> statements[k].name]

commands(statements) ==
    LET calls == SelectSeq(statements, LAMBDA st : st.stmt = "CallVariant")
    IN  [k \in 1..Len(calls) |-> calls[k].name]

\* call_variants with the right-hand side of every statement
call_variants_AllStatements(statements) ==
    [k \in 1..Len(statements) |-> statements[k].rhs]

\* the right-hand sides of the call variants, in statement order
call_variants(statements) ==
    LET calls == SelectSeq(statements, LAMBDA st : st.stmt = "CallVariant")
    IN  [k \in 1..Len(calls) |-> calls[k].rhs]

\* the local expr of validate
validate_expr(statements) ==
    IF Len(call_variants(statements)) = 1
    THEN call_variants(statements)[1]
    ELSE ExprAlternative(call_variants(statements))

\* collected into a map: a later definition of a name replaces an earlier
variable_definitions(statements) ==
    LET defs == SelectSeq(statements, LAMBDA st : st.stmt = "VariableDefinition")
    IN  [n \in {defs[k].name : k \in 1..Len(defs)} |->
            defs[CHOOSE k \in 1..Len(defs) :
                    /\ defs[k].name = n
                    /\ \A j \in (k + 1)..Len(defs) : defs[j].name # n].rhs]

validate(statements) ==
    LET names == Range(commands(statements))
        command == commands(statements)[1]
        e == validate_expr(statements)
        order == get_topologically_ordered_variables(variable_definitions(statements))
    IN  IF commands(statements) = <<>>
        THEN Outcome("Err", "EmptyGrammar", {}, EmptyStr, <<>>)
        ELSE IF Cardinality(names) > 1
             THEN Outcome("Err", "VaryingCommandNames", names, EmptyStr, <<>>)
        ELSE IF order.panic THEN Outcome("panic", "", {}, command, e)
        ELSE Outcome("Ok", "", {}, command,
                     resolve_variables(e, ResolveInOrder(variable_definitions(statements),
                                                         order.value)))

-----------------------------------------------------------------------------
(* AugmentedRegex: every leaf of the expression gets a position, numbered  *)
(* from 1 left to right; the terminator is the position after the last     *)

IsLeaf(e) == e.type \in {"Literal", "Variable"}

\* the Input of every leaf, by position
RECURSIVE Leaves(_)
Leaves(e) ==
    CASE e.type = "Literal" -> <<Literal(e.s, None)>>
      [] e.type = "Variable" -> <<AnyNonterminal(e.s)>>
      [] OTHER -> Flatten([k \in 1..Len(e.children) |-> Leaves(e.children[k])])

\* the number of positions before the k-th child of e, e starting after off
ChildOffset(e, k, off) ==
    off + Len(Flatten([j \in 1..(k - 1) |-> Leaves(e.children[j])]))

RECURSIVE Nullable(_)
\* Nullable with an Optional that cannot be skipped
Nullable_OptionalRequired(e) ==
    CASE IsLeaf(e) -> FALSE
      [] e.type = "Sequence" -> \A k \in 1..Len(e.children) : Nullable(e.children[k])
      [] e.type = "Alternative" -> \E k \in 1..Len(e.children) : Nullable(e.children[k])
      [] e.type = "Optional" -> FALSE
      [] e.type = "Many1" -> Nullable(e.children[1])

Nullable(e) ==
    CASE IsLeaf(e) -> FALSE
      [] e.type = "Sequence" -> \A k \in 1..Len(e.children) : Nullable(e.children[k])
      [] e.type = "Alternative" -> \E k \in 1..Len(e.children) : Nullable(e.children[k])
      [] e.type = "Optional" -> TRUE
      [] e.type = "Many1" -> Nullable(e.children[1])

RECURSIVE FirstPos(_, _)
FirstPos(e, off) ==
    CASE IsLeaf(e) -> {off + 1}
      [] e.type = "Sequence" ->
            UNION {FirstPos(e.children[k], ChildOffset(e, k, off)) :
                   k \in {i \in 1..Len(e.children) :
                             \A j \in 1..(i - 1) : Nullable(e.children[j])}}
      [] e.type = "Alternative" ->
            UNION {FirstPos(e.children[k], ChildOffset(e, k, off)) :
                   k \in 1..Len(e.children)}
      [] OTHER -> FirstPos(e.children[1], off)

RECURSIVE LastPos(_, _)
LastPos(e, off) ==
    CASE IsLeaf(e) -> {off + 1}
      [] e.type = "Sequence" ->
            UNION {LastPos(e.children[k], ChildOffset(e, k, off)) :
                   k \in {i \in 1..Len(e.children) :
                             \A j \in (i + 1)..Len(e.children) : Nullable(e.children[j])}}
      [] e.type = "Alternative" ->
            UNION {LastPos(e.children[k], ChildOffset(e, k, off)) :
                   k \in 1..Len(e.children)}
      [] OTHER -> LastPos(e.children[1], off)

\* followpos as the set of pairs <<p, q>> with q in followpos[p]
RECURSIVE FollowPos(_, _)
FollowPos(e, off) ==
    LET inner == UNION {FollowPos(e.children[k], ChildOffset(e, k, off)) :
                        k \in 1..Len(e.children)}
    IN  CASE IsLeaf(e) -> {}
          [] e.type = "Sequence" ->
                inner \cup
                UNION {LastPos(e.children[i[1]], ChildOffset(e, i[1], off))
                           \X FirstPos(e.children[i[2]], ChildOffset(e, i[2], off)) :
                       i \in {ij \in (1..Len(e.children)) \X (1..Len(e.children)) :
                                 /\ ij[1] < ij[2]
                                 /\ \A k \in (ij[1] + 1)..(ij[2] - 1) :
                                        Nullable(e.children[k])}}
          [] e.type = "Many1" ->
                inner \cup (LastPos(e.children[1], off) \X FirstPos(e.children[1], off))
          [] OTHER -> inner

\* AugmentedRegex::from_expr: Concat(root, Terminator)
AugmentedRegex_from_expr(e) ==
    LET term == Len(Leaves(e)) + 1
    IN  [inputs |-> Leaves(e),
         terminator |-> term,
         firstpos |-> FirstPos(e, 0) \cup (IF Nullable(e) THEN {term} ELSE {}),
         followpos |-> FollowPos(e, 0) \cup (LastPos(e, 0) \X {term})]

-----------------------------------------------------------------------------
(* DFA::from_regex: the direct construction, states being sets of          *)
(* positions, numbered from 0 in the order they are discovered             *)

RECURSIVE SortedSeq(_)
SortedSeq(S) ==
    IF S = {} THEN <<>>
    ELSE LET m == CHOOSE x \in S : \A y \in S : x <= y
         IN  <<m>> \o SortedSeq(S \ {m})

\* one position per group of positions of S that carry the same input
GroupLeaders(r, S) ==
    SortedSeq({p \in S \ {r.terminator} :
                  \A q \in S \ {r.terminator} : r.inputs[q] = r.inputs[p] => p <= q})

\* the union of followpos over the positions of S that carry the input of p
FollowOfGroup(r, S, p) ==
    {pq[2] : pq \in {x \in r.followpos :
                        /\ x[1] \in S \ {r.terminator}
                        /\ r.inputs[x[1]] = r.inputs[p]}}

IndexOf(seq, x) == CHOOSE k \in 1..Len(seq) : seq[k] = x

\* seq followed by the elements of more it does not hold yet
RECURSIVE AppendNew(_, _)
AppendNew(seq, more) ==
    IF more = <<>> THEN seq
    ELSE IF Head(more) \in Range(seq) THEN AppendNew(seq, Tail(more))
    ELSE AppendNew(Append(seq, Head(more)), Tail(more))

\* the worklist: found[k] is handled, its successors are appended when new
RECURSIVE Discover(_, _, _)
Discover(r, found, k) ==
    IF k > Len(found) THEN found
    ELSE LET leaders == GroupLeaders(r, found[k])
             succs == [j \in 1..Len(leaders) |-> FollowOfGroup(r, found[k], leaders[j])]
         IN  Discover(r, AppendNew(found, succs), k + 1)

DFA_from_regex(r) ==
    LET found == Discover(r, <<r.firstpos>>, 1)
    IN  [starting_state |-> 0,
         transitions |->
            [s \in 0..(Len(found) - 1) |->
                LET leaders == GroupLeaders(r, found[s + 1])
                IN  [j \in 1..Len(leaders) |->
                        [input |-> r.inputs[leaders[j]],
                         to |-> IndexOf(found, FollowOfGroup(r, found[s + 1], leaders[j])) - 1]]],
         accepting_states |->
            {s \in 0..(Len(found) - 1) : r.terminator \in found[s + 1]}]

-----------------------------------------------------------------------------
(* DFA::minimize: partition refinement from {accepting, non-accepting}     *)

BlockOf(P, s) == CHOOSE B \in P : s \in B

\* what tells states of one block apart: the block each input leads to
Signature(d, P, s) ==
    {<<t.input, BlockOf(P, t.to)>> : t \in Range(d.transitions[s])}

Refine(d, P) ==
    UNION {{{t \in B : Signature(d, P, t) = Signature(d, P, s)} : s \in B} : B \in P}

RECURSIVE Stable(_, _)
Stable(d, P) == IF Refine(d, P) = P THEN P ELSE Stable(d, Refine(d, P))

MinOf(S) == CHOOSE x \in S : \A y \in S : x <= y

DFA_minimize(d) ==
    LET states == DOMAIN d.transitions
        P == Stable(d, {d.accepting_states, states \ d.accepting_states} \ {{}})
        \* blocks numbered from 0 by their least state
        reps == SortedSeq({MinOf(B) : B \in P})
        NewId(s) == IndexOf(reps, MinOf(BlockOf(P, s))) - 1
    IN  [starting_state |-> NewId(d.starting_state),
         transitions |->
            [b \in 0..(Len(reps) - 1) |->
                [j \in 1..Len(d.transitions[reps[b + 1]]) |->
                    [input |-> d.transitions[reps[b + 1]][j].input,
                     to |-> NewId(d.transitions[reps[b + 1]][j].to)]]],
         accepting_states |-> {NewId(s) : s \in d.accepting_states}]

\* the DFA the completer is given for a grammar: parse, validate, from_expr,
\* from_regex, minimize; the completer reads starting_state and transitions
CompiledDFA(statements) ==
    LET m == DFA_minimize(DFA_from_regex(AugmentedRegex_from_expr(
                 ValidGrammar_from_grammar(statements).expr)))
    IN  [starting_state |-> m.starting_state, transitions |-> m.transitions]

-----------------------------------------------------------------------------
(* The DFAs, words and indices get_completions is called with *)

StateIds == 0..2

InputChoices ==
    {Literal(str_a, None), Literal(str_ba, Some(str_d)),
     AnyNonterminal(str_X), AnyCommand(str_c)}

Words == {str_a, str_b}

Entries == [input : InputChoices, to : StateIds]

\* the entries of a map of at most n keys, in every iteration order
MapsUpTo(n) ==
    {m \in SeqsUpTo(Entries, n) :
        \A j, k \in 1..Len(m) : j # k => m[j].input # m[k].input}

\* state 0 has up to two outgoing transitions, state 1 up to one, and
\* state 2 has no entry in dfa.transitions
DFAs ==
    {[starting_state |-> 0, transitions |-> (0 :> m0) @@ (1 :> m1)] :
        m0 \in MapsUpTo(2), m1 \in MapsUpTo(1)}

\* every iteration order of the map m
Orders(m) ==
    {p \in [1..Len(m) -> Range(m)] : Range(p) = Range(m)}

\* one iteration order for each of the first n states of d
RECURSIVE OrderChoices(_, _)
OrderChoices(d, n) ==
    IF n = 0 THEN {<<>>}
    ELSE {Append(c[1], c[2]) :
             c \in OrderChoices(d, n - 1) \X Orders(d.transitions[n - 1])}

\* the DFA d with its maps iterated in every possible order
Reorderings(d) ==
    {[starting_state |-> d.starting_state,
      transitions |-> [s \in DOMAIN d.transitions |-> c[s + 1]]] :
        c \in OrderChoices(d, Cardinality(DOMAIN d.transitions))}

\* the grammars of the tests of complete.rs that use literals only
str_grep == <<103, 114, 101, 112>>
str_help == <<45, 45, 104, 101, 108, 112>>
str_version == <<45, 45, 118, 101, 114, 115, 105, 111, 110>>
str_h == <<45, 45, 104>>

\* grep (--help | --version);
Grammar_help_or_version ==
    <<CallVariant(str_grep,
                  ExprAlternative(<<ExprLiteral(str_help), ExprLiteral(str_version)>>))>>

\* grep [--help]...;
Grammar_many1_of_optional ==
    <<CallVariant(str_grep, ExprMany1(ExprOptional(ExprLiteral(str_help))))>>

str_OPTION == <<79, 80, 84, 73, 79, 78>>
str_WHEN == <<87, 72, 69, 78>>
str_color == <<45, 45, 99, 111, 108, 111, 114>>
str_extended_regexp ==
    <<45, 45, 101, 120, 116, 101, 110, 100, 101, 100, 45, 114, 101, 103, 101, 120, 112>>
str_always == <<97, 108, 119, 97, 121, 115>>
str_never == <<110, 101, 118, 101, 114>>
str_auto == <<97, 117, 116, 111>>

\* grep [<OPTION>]...;
\* <OPTION> ::= (--color [<WHEN>]) | --extended-regexp;
\* <WHEN> ::= always | never | auto;
Grammar_falls_through_optionals ==
    <<CallVariant(str_grep, ExprMany1(ExprOptional(ExprVariable(str_OPTION)))),
      VariableDefinition(str_OPTION,
          ExprAlternative(<<ExprSequence(<<ExprLiteral(str_color),
                                           ExprOptional(ExprVariable(str_WHEN))>>),
                            ExprLiteral(str_extended_regexp)>>)),
      VariableDefinition(str_WHEN,
          ExprAlternative(<<ExprLiteral(str_always), ExprLiteral(str_never),
                            ExprLiteral(str_auto)>>))>>

Grammars ==
    {Grammar_help_or_version, Grammar_many1_of_optional, Grammar_falls_through_optionals}

\* the words typed against each grammar
GrammarWords(g) ==
    IF g = Grammar_falls_through_optionals
    THEN {str_color, str_always, str_extended_regexp}
    ELSE {str_help, str_version, str_h}

-----------------------------------------------------------------------------
(* The state machine: one call of get_completions *)

Top(stack) == stack[Len(stack)]

Init ==
    /\ grammar = <<>>
    /\ dfa \in DFAs
    /\ inputs \in SeqsUpTo(Words, MaxWords)
    /\ completed_word_index \in 0..MaxWords
    /\ backtracking_stack = InitialStack(dfa)
    /\ input_index = 0
    /\ current_state = dfa.starting_state
    /\ state_id = None
    /\ shell = {}
    /\ per_input = <<>>
    /\ completions = <<>>
    /\ pc = "search"
    /\ source = EmptyStr
    /\ parsed = None
    /\ validated = None
    /\ resolving = None

\* get_grammar_completions: the DFA is compiled from a grammar; its maps
\* iterate in any order
InitGrammar ==
    /\ grammar \in Grammars
    /\ dfa \in Reorderings(CompiledDFA(grammar))
    /\ inputs \in SeqsUpTo(GrammarWords(grammar), MaxWords)
    /\ completed_word_index \in 0..MaxWords
    /\ backtracking_stack = InitialStack(dfa)
    /\ input_index = 0
    /\ current_state = dfa.starting_state
    /\ state_id = None
    /\ shell = {}
    /\ per_input = <<>>
    /\ completions = <<>>
    /\ pc = "search"
    /\ source = EmptyStr
    /\ parsed = None
    /\ validated = None
    /\ resolving = None

\* an iteration of the while loop that returns Some(current_state)
SearchReturn ==
    /\ pc = "search"
    /\ backtracking_stack # <<>>
    /\ ReachedIndex(Top(backtracking_stack)[1], inputs, completed_word_index)
    /\ input_index' = Top(backtracking_stack)[1]
    /\ current_state' = Top(backtracking_stack)[2]
    /\ backtracking_stack' = SubSeq(backtracking_stack, 1, Len(backtracking_stack) - 1)
    /\ state_id' = Some(Top(backtracking_stack)[2])
    /\ pc' = "complete"
    /\ UNCHANGED <<source, parsed, validated, resolving>>
    /\ UNCHANGED <<grammar, dfa, inputs, completed_word_index, shell, per_input, completions>>

\* an iteration of the while loop that pops an entry and pushes its successors
SearchExpand ==
    /\ pc = "search"
    /\ backtracking_stack # <<>>
    /\ ~ReachedIndex(Top(backtracking_stack)[1], inputs, completed_word_index)
    /\ input_index' = Top(backtracking_stack)[1]
    /\ current_state' = Top(backtracking_stack)[2]
    /\ IF IndexOutOfBounds(TransitionsFrom(dfa, Top(backtracking_stack)[2]), inputs,
                           Top(backtracking_stack)[1])
       THEN /\ backtracking_stack' =
                   SubSeq(backtracking_stack, 1, Len(backtracking_stack) - 1)
                   \o PushAny(TransitionsFrom(dfa, Top(backtracking_stack)[2]),
                              Top(backtracking_stack)[1])
            /\ pc' = "panic"
       ELSE /\ backtracking_stack' = Expand(dfa, inputs, backtracking_stack)
            /\ pc' = pc
    /\ UNCHANGED <<source, parsed, validated, resolving>>
    /\ UNCHANGED <<grammar, dfa, inputs, completed_word_index, state_id, shell,
                   per_input, completions>>

\* the stack is empty: get_match_final_state returns None and
\* get_completions returns vec![]
SearchNone ==
    /\ pc = "search"
    /\ backtracking_stack = <<>>
    /\ state_id' = None
    /\ completions' = <<>>
    /\ pc' = "done"
    /\ UNCHANGED <<source, parsed, validated, resolving>>
    /\ UNCHANGED <<grammar, dfa, inputs, completed_word_index, backtracking_stack,
                   input_index, current_state, shell, per_input>>

\* the cursor state is known: enumerate its transitions, call the shell for
\* those that need it, flatten and sort
Complete ==
    /\ pc = "complete"
    /\ LET trans == TransitionsFrom(dfa, state_id[1])
           calls == {t.input : t \in {u \in Range(trans) : CallsShell(u.input)}}
       IN  \E sh \in ShellOutcomes(calls) :
              /\ shell' = sh
              /\ per_input' = PerInput(trans, Prefix(inputs, completed_word_index), sh)
              /\ completions' = CompletionsFrom(dfa, state_id[1], inputs,
                                                completed_word_index, sh)
    /\ pc' = "done"
    /\ UNCHANGED <<source, parsed, validated, resolving>>
    /\ UNCHANGED <<grammar, dfa, inputs, completed_word_index, backtracking_stack,
                   input_index, current_state, state_id>>

Next ==
    \/ SearchReturn
    \/ SearchExpand
    \/ SearchNone
    \/ Complete

Spec == Init /\ [][Next]_vars

\* the call runs to completion: nothing suspends the loop or the shell calls
FairSpec == Spec /\ WF_vars(Next)

GrammarSpec == InitGrammar /\ [][Next]_vars

-----------------------------------------------------------------------------
(* The texts expr and parse are called with, and the state machine of one   *)
(* call: expr(text), or parse(text) followed by validate                    *)

RECURSIVE Join(_, _)
Join(pieces, sep) ==
    IF pieces = <<>> THEN EmptyStr
    ELSE IF Len(pieces) = 1 THEN pieces[1]
    ELSE pieces[1] \o sep \o Join(Tail(pieces), sep)

str_lparen == <<LPAREN>>
str_rparen == <<RPAREN>>
str_bar == <<PIPE>>
str_dots == <<DOT, DOT, DOT>>
str_semicolon == <<SEMICOLON>>
str_sp == <<SPACE>>
str_var_a == <<LT>> \o str_a \o <<GT>>
str_var_X == <<LT>> \o str_X \o <<GT>>
str_var_Y == <<LT, 89, GT>>
str_defined_as == <<COLON, COLON, EQUALS>>

\* the texts of the tests of grammar.rs over one-letter terminals, and the
\* shapes the specification names
ExampleTexts ==
    {Join(<<str_a, str_b, str_bar, str_c>>, str_sp),
     Join(<<str_a, str_bar, str_b, str_c>>, str_sp),
     Join(<<str_a, str_lparen \o str_b, str_bar, str_c \o str_rparen>>, str_sp),
     Join(<<str_a, str_bar, str_b, str_bar, str_c>>, str_sp),
     Join(<<str_a, str_b, str_c>>, str_sp),
     Join(<<str_a, str_b, str_c, str_d>>, str_sp),
     Join(<<str_lparen, str_a, str_bar, str_b, str_rparen>>, str_sp),
     Join(<<str_lparen, str_a, str_bar, str_b, str_rparen>>, EmptyStr),
     Join(<<str_lparen, str_a, str_bar, str_b, str_rparen, str_dots, str_c>>, str_sp),
     Join(<<str_lparen, str_a, str_bar, str_b, str_rparen, str_dots, str_c>>, EmptyStr),
     Join(<<str_a, str_b \o str_dots>>, str_sp),
     <<LBRACKET>> \o str_var_a \o <<RBRACKET>>,
     <<LBRACKET>> \o str_a \o <<RBRACKET>>,
     str_var_a,
     str_var_a \o str_dots,
     Join(<<str_var_a, str_var_X>>, str_sp)}

\* up to MaxTokens tokens, written one after the other or a blank apart
ExprTexts ==
    {Join(t, sep) : t \in SeqsUpTo({str_a, str_b, str_lparen, str_rparen,
                                     str_bar, str_dots}, MaxTokens),
                    sep \in {EmptyStr, str_sp}}
        \cup ExampleTexts

StatementTexts ==
    {Join(<<str_a, str_b>>, str_sp) \o str_semicolon,
     Join(<<str_b, str_a>>, str_sp) \o str_semicolon,
     Join(<<str_a, str_var_X>>, str_sp) \o str_semicolon,
     Join(<<str_var_X, str_defined_as, str_var_X>>, str_sp) \o str_semicolon,
     Join(<<str_var_X, str_defined_as, str_var_Y>>, str_sp) \o str_semicolon,
     Join(<<str_var_Y, str_defined_as, str_var_X>>, str_sp) \o str_semicolon,
     Join(<<str_var_X, str_defined_as, str_a>>, str_sp) \o str_semicolon}

\* statements that do not parse: a command without a body, a definition
\* without its "::="
BrokenStatementTexts ==
    {str_a \o str_semicolon,
     Join(<<str_var_X, str_a>>, str_sp) \o str_semicolon}

\* up to MaxStatements statements, one after the other or a line each,
\* followed by nothing, a blank, a statement cut short or a stray ';'; and
\* a statement that does not parse, with a statement before and after
GrammarTexts ==
    {Join(st, sep) \o sep \o trailer :
        st \in SeqsUpTo(StatementTexts, MaxStatements),
        sep \in {EmptyStr, <<NL>>},
        trailer \in {EmptyStr, str_sp, str_a, Join(<<str_a, str_b>>, str_sp),
                     str_semicolon}}
    \cup
    {before \o sep \o broken \o sep \o after :
        before \in StatementTexts \cup {EmptyStr},
        sep \in {EmptyStr, <<NL>>},
        broken \in BrokenStatementTexts,
        after \in StatementTexts \cup {EmptyStr}}

ParserInit ==
    /\ grammar = <<>>
    /\ dfa = [starting_state |-> 0, transitions |-> <<>>]
    /\ inputs = <<>>
    /\ completed_word_index = 0
    /\ backtracking_stack = <<>>
    /\ input_index = 0
    /\ current_state = 0
    /\ state_id = None
    /\ shell = {}
    /\ per_input = <<>>
    /\ completions = <<>>
    /\ \/ pc = "expr" /\ source \in ExprTexts
       \/ pc = "parse" /\ source \in GrammarTexts
    /\ parsed = None
    /\ validated = None
    /\ resolving = None

completer_vars ==
    <<grammar, dfa, inputs, completed_word_index, backtracking_stack, input_index,
      current_state, state_id, shell, per_input, completions>>

\* a call of expr on the text, as the tests of grammar.rs make it
ExprCall ==
    /\ pc = "expr"
    /\ parsed' = expr(source, 0)
    /\ pc' = "expr_done"
    /\ UNCHANGED <<source, validated>>
    /\ UNCHANGED completer_vars
    /\ UNCHANGED resolving

\* a call of parse on the text
ParseCall ==
    /\ pc = "parse"
    /\ parsed' = parse(source)
    /\ pc' = IF parsed'.ok THEN "validate" ELSE "parse_done"
    /\ UNCHANGED <<source, validated>>
    /\ UNCHANGED completer_vars
    /\ UNCHANGED resolving

\* Grammar::validate on the grammar parse returned
ValidateCall ==
    /\ pc = "validate"
    /\ validated' = validate(parsed.statements)
    /\ pc' = "validate_done"
    /\ UNCHANGED <<source, parsed>>
    /\ UNCHANGED completer_vars
    /\ UNCHANGED resolving

ParserNext ==
    \/ ExprCall
    \/ ParseCall
    \/ ValidateCall

ParserSpec == ParserInit /\ [][ParserNext]_vars

-----------------------------------------------------------------------------
(* resolve_variables called on an expression with a map, and again on what *)
(* it returned                                                             *)

ResolveLeaves == {ExprLiteral(str_a), ExprVariable(str_X), ExprVariable(str_Y)}

\* the expressions resolved: a leaf, one node over leaves, and two shapes
\* of two levels
ResolveExprs ==
    ResolveLeaves
    \cup {ExprOptional(l) : l \in ResolveLeaves}
    \cup {ExprMany1(l) : l \in ResolveLeaves}
    \cup {ExprSequence(<<l, r>>) : l \in ResolveLeaves, r \in ResolveLeaves}
    \cup {ExprAlternative(<<l, r>>) : l \in ResolveLeaves, r \in ResolveLeaves}
    \cup {ExprMany1(ExprOptional(l)) : l \in ResolveLeaves}
    \cup {ExprSequence(<<ExprOptional(l), r>>) : l \in ResolveLeaves, r \in ResolveLeaves}

\* what a name is mapped to: literals, a variable, and expressions that
\* mention the variables again
ResolveReplacements ==
    {ExprLiteral(str_a), ExprLiteral(str_b), ExprVariable(str_X), ExprVariable(str_Y),
     ExprOptional(ExprVariable(str_X)),
     ExprSequence(<<ExprVariable(str_Y), ExprLiteral(str_a)>>)}

\* the maps over X and Y: resolved, self-referential and cyclic ones. No
\* name is mapped to the Variable of itself, so that no node of an
\* expression is the node it is replaced by
ResolveMaps ==
    {m \in UNION {[names -> ResolveReplacements] : names \in SUBSET {str_X, str_Y}} :
        \A n \in DOMAIN m : m[n] # ExprVariable(n)}

ResolveInit ==
    /\ grammar = <<>>
    /\ dfa = [starting_state |-> 0, transitions |-> <<>>]
    /\ inputs = <<>>
    /\ completed_word_index = 0
    /\ backtracking_stack = <<>>
    /\ input_index = 0
    /\ current_state = 0
    /\ state_id = None
    /\ shell = {}
    /\ per_input = <<>>
    /\ completions = <<>>
    /\ pc = "resolve"
    /\ source = EmptyStr
    /\ parsed = None
    /\ validated = None
    /\ resolving \in [expr : ResolveExprs, vars : ResolveMaps,
                      results : {<<>>}, replaced : {<<>>}]

\* the expression the next call is made on
ResolveArgument ==
    IF resolving.results = <<>> THEN resolving.expr
    ELSE resolving.results[Len(resolving.results)]

\* a call of resolve_variables on the expression, or on what the call
\* before returned
ResolveCall ==
    /\ pc = "resolve"
    /\ Len(resolving.results) < MaxCalls
    /\ resolving' =
          [resolving EXCEPT
              !.results = Append(@, resolve_variables(ResolveArgument, resolving.vars)),
              !.replaced = Append(@, any_child_replaced(ResolveArgument, resolving.vars))]
    /\ UNCHANGED <<pc, source, parsed, validated>>
    /\ UNCHANGED completer_vars

ResolveNext == ResolveCall

ResolveSpec == ResolveInit /\ [][ResolveNext]_vars

-----------------------------------------------------------------------------
(* What the claims speak of, stated without the search *)

\* the number of words the search has to consume
Target == Min(Len(inputs), completed_word_index)

\* a transition label consumes a word: Any, or a Literal equal to the word
Consumes(input, word) ==
    \/ input.kind # "Literal"
    \/ input.text = word

\* the states at the end of a path of exactly k consuming transitions
RECURSIVE ReachedAfter(_)
ReachedAfter(k) ==
    IF k = 0 THEN {dfa.starting_state}
    ELSE UNION {{t.to : t \in {u \in Range(TransitionsFrom(dfa, s)) :
                                   Consumes(u.input, inputs[k])}} :
                s \in ReachedAfter(k - 1)}

Returned == pc # "search" /\ state_id # None

CursorTransitions == TransitionsFrom(dfa, state_id[1])

AnyTargets(s) ==
    {t.to : t \in {u \in Range(TransitionsFrom(dfa, s)) : u.input.kind # "Literal"}}

LiteralTargets(s, word) ==
    {t.to : t \in {u \in Range(TransitionsFrom(dfa, s)) :
                       u.input.kind = "Literal" /\ u.input.text = word}}

\* C1: a returned state ends a path of exactly min(len(W), i) transitions,
\* each an Any or a Literal equal to the word at its position, and the entry
\* it was popped from carries that index
C1_ReturnedStateIsReached ==
    Returned =>
        /\ state_id[1] \in ReachedAfter(Target)
        /\ input_index = Target

C1_Witness ==
    /\ Returned
    /\ Target = 2
    /\ inputs[1] # inputs[2]
    /\ \E t \in Range(TransitionsFrom(dfa, 0)) : t.input.kind = "Literal" /\ t.to = 1
    /\ state_id[1] = 2

\* C2: the search returns None exactly when no path of min(len(W), i)
\* consuming transitions leaves the starting state, and the list is then empty
C2_NoneIffNoPath ==
    pc = "done" =>
        /\ (state_id = None) <=> (ReachedAfter(Target) = {})
        /\ state_id = None => completions = <<>>

\* a single state looping on one literal, a word that is not that literal, index 1
C2_Witness ==
    /\ pc = "done"
    /\ state_id = None
    /\ dfa.transitions[0] = <<[input |-> Literal(str_a, None), to |-> 0]>>
    /\ inputs = <<str_b>>
    /\ completed_word_index = 1
    /\ completions = <<>>

\* C3: out of a state whose word is consumed both by an Any transition and by
\* a Literal transition, the Any successor is the next entry popped; with one
\* word to consume the state returned is the Any successor
C3_AnyBranchFirst ==
    (/\ Returned
     /\ Target = 1
     /\ AnyTargets(dfa.starting_state) # {}
     /\ LiteralTargets(dfa.starting_state, inputs[1]) # {})
        => state_id[1] \in AnyTargets(dfa.starting_state)

\* C4: every entry pushed carries an index greater than the entry popped in
\* the same iteration, and the search returns
PushedIndexGrows ==
    (pc = "search" /\ backtracking_stack # <<>>) =>
        \A k \in Len(backtracking_stack)..Len(backtracking_stack') :
            backtracking_stack'[k][1] > Top(backtracking_stack)[1]

C4_SearchTerminates ==
    /\ [][PushedIndexGrows]_vars
    /\ <>(pc # "search")

HasCycle(d) ==
    \/ \E t \in Range(TransitionsFrom(d, 0)) : t.to = 0
    \/ \E t \in Range(TransitionsFrom(d, 1)) : t.to = 1
    \/ /\ \E t \in Range(TransitionsFrom(d, 0)) : t.to = 1
       /\ \E t \in Range(TransitionsFrom(d, 1)) : t.to = 0

\* a cyclic DFA, two words consumed around the cycle, the search over
C4_Witness ==
    /\ pc = "done"
    /\ HasCycle(dfa)
    /\ Target = 2
    /\ input_index = 2
    /\ current_state = 0

\* C5: the returned list holds no pair twice
C5_NoDuplicates ==
    pc = "done" =>
        \A j, k \in 1..Len(completions) : j # k => completions[j] # completions[k]

\* ascending order of strings, by the first byte that differs
RECURSIVE LexLeq(_, _)
LexLeq(a, b) ==
    IF a = <<>> THEN TRUE
    ELSE IF b = <<>> THEN FALSE
    ELSE IF Head(a) # Head(b) THEN Head(a) < Head(b)
    ELSE LexLeq(Tail(a), Tail(b))

\* C6: the returned list ascends by completion and, among equal completions,
\* by description
C6_Sorted ==
    pc = "done" =>
        \A j, k \in 1..Len(completions) :
            j < k =>
                /\ LexLeq(completions[j][1], completions[k][1])
                /\ completions[j][1] = completions[k][1]
                       => LexLeq(completions[j][2], completions[k][2])

\* the candidates were collected in an order the sort had to change
C6_Witness ==
    /\ pc = "done"
    /\ Len(completions) >= 3
    /\ Flatten(per_input) # completions
    /\ \E j \in 1..Len(completions) - 1 :
          /\ completions[j][1] = completions[j + 1][1]
          /\ completions[j][2] # completions[j + 1][2]

\* C7: the list is the one every other iteration order gives
C7_OrderNotObservable ==
    pc = "done" =>
        \A d \in Reorderings(dfa) :
            get_completions(d, inputs, completed_word_index, shell) = completions

\* the Any transitions of a state agree on their target
AnyTargetsAgree(d) ==
    \A s \in DOMAIN d.transitions :
        \A t, u \in Range(d.transitions[s]) :
            (matches_anything(t.input) /\ matches_anything(u.input)) => t.to = u.to

\* C7, amended: the list is the one every other iteration order gives when
\* the Any transitions of each state lead to one target
C7_OrderNotObservableUnlessAnyDiverge ==
    (pc = "done" /\ AnyTargetsAgree(dfa)) =>
        \A d \in Reorderings(dfa) :
            get_completions(d, inputs, completed_word_index, shell) = completions

\* two Any transitions looping on the starting state, one word consumed, and
\* the command's candidates printed in an order the sort had to change
C7_Witness ==
    /\ pc = "done"
    /\ AnyTargetsAgree(dfa)
    /\ Len(dfa.transitions[0]) = 2
    /\ \A t \in Range(dfa.transitions[0]) : matches_anything(t.input) /\ t.to = 0
    /\ Target = 1
    /\ Len(completions) >= 2
    /\ Flatten(per_input) # completions

ClaimPrefix ==
    IF completed_word_index < Len(inputs)
    THEN inputs[completed_word_index + 1]
    ELSE <<>>

\* s begins with p
RECURSIVE BeginsWith(_, _)
BeginsWith(s, p) ==
    IF p = <<>> THEN TRUE
    ELSE IF s = <<>> THEN FALSE
    ELSE Head(s) = Head(p) /\ BeginsWith(Tail(s), Tail(p))

LiteralCandidate(input) ==
    <<input.text, IF input.desc = <<>> THEN <<>> ELSE input.desc[1]>>

\* C9: a Literal transition of the cursor state contributes (tok, desc or "")
\* when tok begins with the prefix and nothing otherwise
C9_LiteralIffPrefix ==
    (pc = "done" /\ state_id # None) =>
        \A k \in 1..Len(CursorTransitions) :
            CursorTransitions[k].input.kind = "Literal" =>
                IF BeginsWith(CursorTransitions[k].input.text, ClaimPrefix)
                THEN /\ per_input[k] = <<LiteralCandidate(CursorTransitions[k].input)>>
                     /\ LiteralCandidate(CursorTransitions[k].input) \in Range(completions)
                ELSE per_input[k] = <<>>

\* a typed prefix that one literal of the cursor state begins with and the
\* other does not
C9_Witness ==
    /\ pc = "done"
    /\ state_id # None
    /\ ClaimPrefix = str_b
    /\ Len(CursorTransitions) = 2
    /\ \A t \in Range(CursorTransitions) : t.input.kind = "Literal"
    /\ completions = <<<<str_ba, str_d>>>>

\* C10: without an Any transition out of the cursor state, every completion
\* is the token of a Literal transition of the cursor state
C10_OnlyLiteralTokens ==
    (/\ pc = "done"
     /\ state_id # None
     /\ \A t \in Range(CursorTransitions) : t.input.kind = "Literal")
        => \A c \in Range(completions) :
               \E t \in Range(CursorTransitions) :
                   t.input.kind = "Literal" /\ t.input.text = c[1]

C10_Witness ==
    /\ pc = "done"
    /\ state_id # None
    /\ Target = 1
    /\ \A t \in Range(CursorTransitions) : t.input.kind = "Literal"
    /\ Len(completions) = 1
    /\ completions[1][2] # <<>>

-----------------------------------------------------------------------------
(* The candidates of a transition, stated from the text of the output *)

NLPositions(s) == {k \in 1..Len(s) : s[k] = NL}

\* the position of the j-th line ending of s
NthNL(s, j) ==
    CHOOSE k \in NLPositions(s) : Cardinality({m \in NLPositions(s) : m <= k}) = j

\* a last line needs no line ending
ClaimLineCount(s) ==
    Cardinality(NLPositions(s)) + (IF s # <<>> /\ s[Len(s)] # NL THEN 1 ELSE 0)

ClaimLine(s, j) ==
    SubSeq(s,
           IF j = 1 THEN 1 ELSE NthNL(s, j - 1) + 1,
           IF j <= Cardinality(NLPositions(s)) THEN NthNL(s, j) - 1 ELSE Len(s))

\* the line cut at its first tab
ClaimCandidate(line) ==
    IF \E k \in 1..Len(line) : line[k] = TAB
    THEN LET t == CHOOSE k \in 1..Len(line) :
                      line[k] = TAB /\ \A m \in 1..(k - 1) : line[m] # TAB
         IN  <<SubSeq(line, 1, t - 1), SubSeq(line, t + 1, Len(line))>>
    ELSE <<line, <<>>>>

ClaimCandidates(s) == [j \in 1..ClaimLineCount(s) |-> ClaimCandidate(ClaimLine(s, j))]

\* the candidates a command's output stands for, given what was typed
ClaimKept(s) ==
    IF ClaimPrefix = <<>> THEN ClaimCandidates(s)
    ELSE SelectSeq(ClaimCandidates(s), LAMBDA c : BeginsWith(c[1], ClaimPrefix))

\* C12: a Command transition of the cursor state whose command succeeds
\* contributes one candidate per line of the output, cut at the first tab,
\* the description empty without a tab; a typed prefix keeps the candidates
\* that begin with it, an empty one keeps them all
C12_CommandLinesSplitAndFiltered ==
    (pc = "done" /\ state_id # None) =>
        \A k \in 1..Len(CursorTransitions) :
            (/\ CursorTransitions[k].input.kind = "Command"
             /\ ShellResult(shell, CursorTransitions[k].input).ok)
                => /\ per_input[k] =
                          ClaimKept(ShellResult(shell, CursorTransitions[k].input).stdout)
                   /\ \A c \in Range(per_input[k]) : c \in Range(completions)

\* the command printed a line with a tab and a line without; b was typed
C12_Witness ==
    /\ pc = "done"
    /\ state_id # None
    /\ ClaimPrefix = str_b
    /\ \E k \in 1..Len(CursorTransitions) :
          /\ CursorTransitions[k].input.kind = "Command"
          /\ ShellResult(shell, CursorTransitions[k].input).ok
          /\ Len(ClaimCandidates(ShellResult(shell, CursorTransitions[k].input).stdout)) = 2
          /\ per_input[k] = <<<<str_ba, str_c>>>>

OtherNonterminal(input) ==
    input.kind = "Nonterminal" /\ input.text \notin {str_PATH, str_DIRECTORY}

\* an iteration that returns nothing pushes the successor of t for the next word
PushedFor(t) ==
    \E k \in Len(backtracking_stack)..Len(backtracking_stack') :
        backtracking_stack'[k] = <<Top(backtracking_stack)[1] + 1, t.to>>

Expanding ==
    /\ pc = "search"
    /\ backtracking_stack # <<>>
    /\ ~ReachedIndex(Top(backtracking_stack)[1], inputs, completed_word_index)

\* C13: a nonterminal other than PATH and DIRECTORY consumes the word of any
\* iteration of the search, and as a transition of the cursor state it
\* contributes no candidate
C13_OtherNonterminalConsumesOnly ==
    [][/\ Expanding =>
              \A t \in Range(TransitionsFrom(dfa, Top(backtracking_stack)[2])) :
                  OtherNonterminal(t.input) => PushedFor(t)
       /\ (pc' = "done" /\ state_id' # None) =>
              \A k \in 1..Len(CursorTransitions') :
                  OtherNonterminal(CursorTransitions'[k].input) => per_input'[k] = <<>>]_vars

\* a word that is no literal of the starting state was consumed by the
\* nonterminal, and the cursor state offers its literal only
C13_Witness ==
    /\ pc = "done"
    /\ state_id # None
    /\ Target = 1
    /\ LiteralTargets(dfa.starting_state, inputs[1]) = {}
    /\ \E t \in Range(TransitionsFrom(dfa, dfa.starting_state)) :
          OtherNonterminal(t.input) /\ t.to = state_id[1]
    /\ \E t \in Range(CursorTransitions) : OtherNonterminal(t.input)
    /\ completions = <<<<str_a, <<>>>>>>

\* what a transition contributes, given the result of its call
ClaimContribution(input) ==
    CASE input.kind = "Literal" ->
            IF BeginsWith(input.text, ClaimPrefix) THEN <<LiteralCandidate(input)>> ELSE <<>>
      [] input.kind = "Command" /\ ShellResult(shell, input).ok ->
            ClaimKept(ShellResult(shell, input).stdout)
      [] OTHER -> <<>>

FailedCall(input) == CallsShell(input) /\ ~ShellResult(shell, input).ok

\* C14: a transition whose shell call fails contributes nothing, and the
\* list still holds what every other transition of the cursor state
\* contributes, no more and no less
C14_ShellFailureIsLocal ==
    (/\ pc = "done"
     /\ state_id # None
     /\ \E t \in Range(CursorTransitions) : FailedCall(t.input))
        => /\ \A k \in 1..Len(CursorTransitions) :
                  per_input[k] = ClaimContribution(CursorTransitions[k].input)
           /\ \A k \in 1..Len(CursorTransitions) :
                  \A c \in Range(per_input[k]) : c \in Range(completions)
           /\ Len(completions) = Len(Flatten(per_input))

\* the command failed and the literal next to it is offered
C14_Witness ==
    /\ pc = "done"
    /\ state_id # None
    /\ Len(CursorTransitions) = 2
    /\ \E t \in Range(CursorTransitions) : FailedCall(t.input)
    /\ \E t \in Range(CursorTransitions) : t.input.kind = "Literal"
    /\ completions = <<<<str_ba, str_d>>>>

\* C15: every Any transition consumes the word of an iteration of the search
\* whatever the word; the search makes no shell call; the calls made are for
\* transitions of the cursor state
C15_AnyConsumesWithoutShell ==
    [][/\ Expanding =>
              \A t \in Range(TransitionsFrom(dfa, Top(backtracking_stack)[2])) :
                  t.input.kind # "Literal" => PushedFor(t)
       /\ pc = "search" => shell = {} /\ (pc' # "done" => shell' = {})
       /\ (pc' = "done" /\ state_id' # None) =>
              \A p \in shell' : \E t \in Range(CursorTransitions') :
                  t.input = p[1] /\ CallsShell(t.input)]_vars

\* a command consumed a word that is no literal, and no call was made
C15_Witness ==
    /\ pc = "done"
    /\ state_id # None
    /\ Target = 1
    /\ LiteralTargets(dfa.starting_state, inputs[1]) = {}
    /\ \E t \in Range(TransitionsFrom(dfa, dfa.starting_state)) :
          t.input.kind = "Command" /\ t.to = state_id[1]
    /\ shell = {}
    /\ completions # <<>>

-----------------------------------------------------------------------------
(* The argument sequences of a grammar, stated from its statements *)

\* the definition of a variable in the grammar g
ClaimDefinition(g, name) ==
    (CHOOSE st \in Range(g) : st.stmt = "VariableDefinition" /\ st.name = name).rhs

\* the concatenations of a member of A and a member of B, of length up to k
ClaimConcat(A, B, k) ==
    {ab[1] \o ab[2] : ab \in {x \in A \X B : Len(x[1]) + Len(x[2]) <= k}}

\* A, AA, AAA, ... of length up to k
RECURSIVE ClaimRepeat(_, _, _)
ClaimRepeat(A, acc, k) ==
    IF ClaimConcat(acc, A, k) \subseteq acc THEN acc
    ELSE ClaimRepeat(A, acc \cup ClaimConcat(acc, A, k), k)

\* the argument sequences of length up to k that e matches
RECURSIVE ClaimLang(_, _, _)
ClaimLang(g, e, k) ==
    CASE e.type = "Literal" -> IF k >= 1 THEN {<<e.s>>} ELSE {}
      [] e.type = "Variable" -> ClaimLang(g, ClaimDefinition(g, e.s), k)
      [] e.type = "Alternative" ->
            UNION {ClaimLang(g, e.children[j], k) : j \in 1..Len(e.children)}
      [] e.type = "Optional" -> {<<>>} \cup ClaimLang(g, e.children[1], k)
      [] e.type = "Many1" ->
            ClaimRepeat(ClaimLang(g, e.children[1], k), ClaimLang(g, e.children[1], k), k)
      [] e.type = "Sequence" ->
            IF Len(e.children) = 1 THEN ClaimLang(g, e.children[1], k)
            ELSE ClaimConcat(ClaimLang(g, e.children[1], k),
                             ClaimLang(g, ExprSequence(Tail(e.children)), k), k)

\* the sequences of length up to k that begin an argument sequence of e
RECURSIVE ClaimPrefixes(_, _, _)
ClaimPrefixes(g, e, k) ==
    CASE e.type = "Literal" -> IF k >= 1 THEN {<<>>, <<e.s>>} ELSE {<<>>}
      [] e.type = "Variable" -> ClaimPrefixes(g, ClaimDefinition(g, e.s), k)
      [] e.type = "Alternative" ->
            UNION {ClaimPrefixes(g, e.children[j], k) : j \in 1..Len(e.children)}
      [] e.type = "Optional" -> ClaimPrefixes(g, e.children[1], k)
      [] e.type = "Many1" ->
            ClaimPrefixes(g, e.children[1], k) \cup
            ClaimConcat(ClaimLang(g, e, k), ClaimPrefixes(g, e.children[1], k), k)
      [] e.type = "Sequence" ->
            IF Len(e.children) = 1 THEN ClaimPrefixes(g, e.children[1], k)
            ELSE ClaimPrefixes(g, e.children[1], k) \cup
                 ClaimConcat(ClaimLang(g, e.children[1], k),
                             ClaimPrefixes(g, ExprSequence(Tail(e.children)), k), k)

\* the body of the call variants of g, variables left as written
ClaimBody(g) ==
    LET calls == SelectSeq(g, LAMBDA st : st.stmt = "CallVariant")
    IN  IF Len(calls) = 1 THEN calls[1].rhs
        ELSE ExprAlternative([k \in 1..Len(calls) |-> calls[k].rhs])

\* the literals written anywhere in g
RECURSIVE ClaimLiterals(_)
ClaimLiterals(e) ==
    CASE e.type = "Literal" -> {e.s}
      [] e.type = "Variable" -> {}
      [] OTHER -> UNION {ClaimLiterals(e.children[k]) : k \in 1..Len(e.children)}

\* every variable g mentions is defined in g
ClaimLiteralsOnly(g) ==
    \A st \in Range(g) :
        \A v \in VariablesOf(st.rhs) :
            \E d \in Range(g) : d.stmt = "VariableDefinition" /\ d.name = v

\* the tokens that may follow the words typed
ClaimNextTokens(g, words) ==
    LET begun == ClaimPrefixes(g, ClaimBody(g), Len(words) + 1)
    IN  {t \in UNION {ClaimLiterals(st.rhs) : st \in Range(g)} :
            Append(words, t) \in begun}

-----------------------------------------------------------------------------
(* The trees expr returns and the results of parse and validate *)

\* expr consumed the whole text
ExprDone == pc = "expr_done" /\ parsed.ok /\ parsed.pos = Len(source)

\* no parenthesis and no bracket in the text
ClaimChain(s) ==
    \A k \in 1..Len(s) : s[k] \notin {LPAREN, RPAREN, LBRACKET, RBRACKET}

\* e and every expression below it
RECURSIVE ClaimNodes(_)
ClaimNodes(e) ==
    {e} \cup UNION {ClaimNodes(e.children[k]) : k \in 1..Len(e.children)}

ClaimChildTypes(n) == {n.children[k].type : k \in 1..Len(n.children)}

Text_a_b_c == Join(<<str_a, str_b, str_c>>, str_sp)
Text_a_or_b_or_c == Join(<<str_a, str_bar, str_b, str_bar, str_c>>, str_sp)
Text_a_b_or_c == Join(<<str_a, str_b, str_bar, str_c>>, str_sp)
Text_a_or_b_c == Join(<<str_a, str_bar, str_b, str_c>>, str_sp)
Text_a_group_b_or_c ==
    Join(<<str_a, str_lparen \o str_b, str_bar, str_c \o str_rparen>>, str_sp)
Text_a_b_dots == Join(<<str_a, str_b \o str_dots>>, str_sp)
Text_group_dots_c ==
    Join(<<str_lparen, str_a, str_bar, str_b, str_rparen, str_dots, str_c>>, str_sp)

C17_Precedence ==
    /\ (ExprDone /\ ClaimChain(source)) =>
          \A n \in ClaimNodes(parsed.value) :
              /\ n.type = "Alternative" => n = parsed.value
              /\ n.type = "Sequence" => "Alternative" \notin ClaimChildTypes(n)
              /\ n.type = "Many1" => ClaimChildTypes(n) \subseteq {"Literal", "Variable"}
    /\ (pc = "expr_done" /\ source = Text_a_b_or_c) =>
          parsed = Ok(Len(source),
                      ExprAlternative(<<ExprSequence(<<ExprLiteral(str_a),
                                                       ExprLiteral(str_b)>>),
                                        ExprLiteral(str_c)>>))
    /\ (pc = "expr_done" /\ source = Text_a_or_b_c) =>
          parsed = Ok(Len(source),
                      ExprAlternative(<<ExprLiteral(str_a),
                                        ExprSequence(<<ExprLiteral(str_b),
                                                       ExprLiteral(str_c)>>)>>))
    /\ (pc = "expr_done" /\ source = Text_a_group_b_or_c) =>
          parsed = Ok(Len(source),
                      ExprSequence(<<ExprLiteral(str_a),
                                     ExprAlternative(<<ExprLiteral(str_b),
                                                       ExprLiteral(str_c)>>)>>))
    /\ (pc = "expr_done" /\ source = Text_a_b_dots) =>
          parsed = Ok(Len(source),
                      ExprSequence(<<ExprLiteral(str_a),
                                     ExprMany1(ExprLiteral(str_b))>>))

C17_Witness ==
    /\ ExprDone
    /\ source = Text_a_b_or_c
    /\ parsed.value.type = "Alternative"
    /\ parsed.value.children[1].type = "Sequence"

\* the text is one atom: a terminal, a symbol, a bracketed or a
\* parenthesised expression
ClaimAtomText(s) == alt_atom(s, 0).ok /\ alt_atom(s, 0).pos = Len(s)

\* C18: for a text X that is one atom, X... and X ... both parse to
\* Many1(X), and X ... c parses to Sequence[Many1(X), c];
\* ( a | b ) ... c parses to Sequence[Many1(Alternative[a, b]), c]
C18_DotsWrapPrecedingAtom ==
    /\ (pc = "expr_done" /\ ClaimAtomText(source)) =>
          /\ parsed = Ok(Len(source), alt_atom(source, 0).value)
          /\ expr(source \o str_dots, 0) =
                Ok(Len(source) + 3, ExprMany1(parsed.value))
          /\ expr(source \o str_sp \o str_dots, 0) =
                Ok(Len(source) + 4, ExprMany1(parsed.value))
          /\ expr(source \o str_sp \o str_dots \o str_sp \o str_c, 0) =
                Ok(Len(source) + 6,
                   ExprSequence(<<ExprMany1(parsed.value), ExprLiteral(str_c)>>))
    /\ (pc = "expr_done" /\ source = Text_group_dots_c) =>
          parsed = Ok(Len(source),
                      ExprSequence(<<ExprMany1(ExprAlternative(<<ExprLiteral(str_a),
                                                                 ExprLiteral(str_b)>>)),
                                     ExprLiteral(str_c)>>))

C18_Witness ==
    /\ ExprDone
    /\ source = Text_group_dots_c
    /\ parsed.value.type = "Sequence"
    /\ parsed.value.children[1].type = "Many1"
    /\ parsed.value.children[1].children[1].type = "Alternative"

\* the texts that are statements and blanks and nothing else
ClaimWellFormedTexts ==
    {Join(st, sep) \o sep \o trailer :
        st \in SeqsUpTo(StatementTexts, MaxStatements),
        sep \in {EmptyStr, <<NL>>},
        trailer \in {EmptyStr, str_sp}}

ClaimSemicolons(s) == Cardinality({k \in 1..Len(s) : s[k] = SEMICOLON})

ParseReturned == pc \in {"parse_done", "validate", "validate_done"}

\* C19: parse returns Ok exactly for the texts that are statements and
\* blanks and nothing else, with one statement for each; for any other text
\* it returns an error that carries the text left over, and no statements
C19_OkIffWholeTextConsumed ==
    ParseReturned =>
        /\ parsed.ok <=> source \in ClaimWellFormedTexts
        /\ parsed.ok =>
              /\ parsed.rest = <<>>
              /\ Len(parsed.statements) = ClaimSemicolons(source)
        /\ ~parsed.ok =>
              /\ parsed.error = "TrailingInput"
              /\ parsed.statements = <<>>
              /\ parsed.rest # <<>>
              /\ parsed.rest =
                    SubSeq(source, Len(source) - Len(parsed.rest) + 1, Len(source))

\* two statements accepted, then a b without its semicolon
C19_Witness ==
    /\ pc = "parse_done"
    /\ ~parsed.ok
    /\ parsed.rest = Join(<<str_a, str_b>>, str_sp)
    /\ ClaimSemicolons(source) = 2

\* the variables e mentions
RECURSIVE ClaimMentions(_)
ClaimMentions(e) ==
    IF e.type = "Variable" THEN {e.s}
    ELSE UNION {ClaimMentions(e.children[k]) : k \in 1..Len(e.children)}

\* the variables mentioned by the definitions of the variables of V
ClaimStep(statements, V) ==
    UNION {ClaimMentions(st.rhs) :
              st \in {d \in Range(statements) :
                         d.stmt = "VariableDefinition" /\ d.name \in V}}

\* the variables reached from those of V in one step or more
RECURSIVE ClaimReach(_, _)
ClaimReach(statements, V) ==
    IF ClaimStep(statements, V) \subseteq V THEN V
    ELSE ClaimReach(statements, V \cup ClaimStep(statements, V))

\* a defined variable depends on itself
ClaimCyclic(statements) ==
    \E st \in Range(statements) :
        /\ st.stmt = "VariableDefinition"
        /\ st.name \in ClaimReach(statements, ClaimStep(statements, {st.name}))

\* the call variants are there and agree on the command name
ClaimOneCommand(statements) ==
    Cardinality({st.name : st \in {d \in Range(statements) :
                                       d.stmt = "CallVariant"}}) = 1

\* C20: validate on a grammar of one command whose variable definitions
\* hold a cycle returns the error CyclicVariables: it does not panic and
\* returns no validated grammar
C20_CyclicVariablesReported ==
    (/\ pc = "validate_done"
     /\ ClaimOneCommand(parsed.statements)
     /\ ClaimCyclic(parsed.statements)) =>
        validated.outcome = "Err" /\ validated.error = "CyclicVariables"

\* the names the statements define
ClaimDefined(statements) ==
    {st.name : st \in {d \in Range(statements) : d.stmt = "VariableDefinition"}}

\* the right-hand side of the last definition of name
ClaimLastDefinition(statements, name) ==
    statements[CHOOSE k \in 1..Len(statements) :
                  /\ statements[k].stmt = "VariableDefinition"
                  /\ statements[k].name = name
                  /\ \A j \in (k + 1)..Len(statements) :
                        ~(statements[j].stmt = "VariableDefinition"
                          /\ statements[j].name = name)].rhs

\* e with every defined variable replaced by its definition, itself
\* replaced in the same way, for definitions without a cycle
RECURSIVE ClaimExpand(_, _)
ClaimExpand(statements, e) ==
    CASE e.type = "Literal" -> e
      [] e.type = "Variable" ->
            IF e.s \in ClaimDefined(statements)
            THEN ClaimExpand(statements, ClaimLastDefinition(statements, e.s))
            ELSE e
      [] OTHER ->
            [e EXCEPT !.children =
                [k \in 1..Len(e.children) |-> ClaimExpand(statements, e.children[k])]]

\* C21: validate on a grammar of one command whose variable definitions
\* hold no cycle returns Ok, with the body in which every defined variable
\* is replaced, through chains of definitions, by its resolved definition
\* and every other variable is left as it is
C21_DefinedVariablesResolved ==
    (/\ pc = "validate_done"
     /\ ClaimOneCommand(parsed.statements)
     /\ ~ClaimCyclic(parsed.statements)) =>
        /\ validated.outcome = "Ok"
        /\ validated.expr = ClaimExpand(parsed.statements, ClaimBody(parsed.statements))
        /\ ClaimMentions(validated.expr) \cap ClaimDefined(parsed.statements) = {}

\* the statements hold no call variant
ClaimNoCallVariant(statements) ==
    \A k \in 1..Len(statements) : statements[k].stmt # "CallVariant"

\* C22: validate on a grammar without a call variant, with or without
\* variable definitions, returns the error EmptyGrammar, and on no other
\* grammar
C22_EmptyGrammarReported ==
    pc = "validate_done" =>
        (ClaimNoCallVariant(parsed.statements)
            <=> (validated.outcome = "Err" /\ validated.error = "EmptyGrammar"))

\* variable definitions only
C22_Witness ==
    /\ pc = "validate_done"
    /\ Len(parsed.statements) >= 2
    /\ ClaimNoCallVariant(parsed.statements)
    /\ validated.outcome = "Err"
    /\ validated.error = "EmptyGrammar"

\* the command names of the call variants
ClaimCommandNames(statements) ==
    {st.name : st \in {d \in Range(statements) : d.stmt = "CallVariant"}}

\* C23: validate on call variants of more than one command name returns
\* VaryingCommandNames with the distinct names; on call variants of one
\* name, however many, it returns a validated grammar with that command
C23_CommandNames ==
    (pc = "validate_done" /\ ~ClaimNoCallVariant(parsed.statements)) =>
        IF Cardinality(ClaimCommandNames(parsed.statements)) > 1
        THEN /\ validated.outcome = "Err"
             /\ validated.error = "VaryingCommandNames"
             /\ validated.names = ClaimCommandNames(parsed.statements)
        ELSE /\ validated.outcome = "Ok"
             /\ {validated.command} = ClaimCommandNames(parsed.statements)

\* the number of call variants
ClaimCallVariantCount(statements) ==
    Cardinality({k \in 1..Len(statements) : statements[k].stmt = "CallVariant"})

ClaimDefinedTwice(statements) ==
    \E j, k \in 1..Len(statements) :
        /\ j < k
        /\ statements[j].stmt = "VariableDefinition"
        /\ statements[k].stmt = "VariableDefinition"
        /\ statements[j].name = statements[k].name

\* C29: validate on a grammar of one command that defines a name more
\* than once, without a cycle, returns Ok, with the last definition of the
\* name in place of every occurrence of it
C29_LastDefinitionUsed ==
    (/\ pc = "validate_done"
     /\ ClaimOneCommand(parsed.statements)
     /\ ClaimDefinedTwice(parsed.statements)
     /\ ~ClaimCyclic(parsed.statements)) =>
        /\ validated.outcome = "Ok"
        /\ validated.expr = ClaimExpand(parsed.statements, ClaimBody(parsed.statements))

\* the text begins with one of the statements
ClaimBeginsWithStatement(s) ==
    \E t \in StatementTexts : Len(t) <= Len(s) /\ SubSeq(s, 1, Len(t)) = t

\* C30: parse reports every text it does not accept as TrailingInput, never
\* as ParsingError; the text before the payload is statements and blanks,
\* all accepted, and the payload begins where a statement was looked for
\* and none was found
C30_SyntaxErrorIsTrailingInput ==
    ParseReturned =>
        /\ parsed.error # "ParsingError"
        /\ ~parsed.ok =>
              /\ parsed.error = "TrailingInput"
              /\ Len(parsed.rest) \in 1..Len(source)
              /\ source = SubSeq(source, 1, Len(source) - Len(parsed.rest)) \o parsed.rest
              /\ SubSeq(source, 1, Len(source) - Len(parsed.rest)) \in ClaimWellFormedTexts
              /\ parsed.rest[1] \notin {SPACE, NL, TAB, CR}
              /\ ~ClaimBeginsWithStatement(parsed.rest)

\* a statement accepted, then one that does not parse, then one that would
C30_Witness ==
    /\ pc = "parse_done"
    /\ ~parsed.ok
    /\ parsed.error = "TrailingInput"
    /\ Len(parsed.rest) < Len(source)
    /\ \E broken \in BrokenStatementTexts, t \in StatementTexts :
          parsed.rest = broken \o t

\* C26: every entry of the backtracking stack has an index of at most
\* min(len(inputs), completed_word_index), and no read of inputs panics; an
\* iteration that pushes reads inputs at an index below len(inputs), and
\* pushes nothing from a state that has no entry in dfa.transitions
C26_SearchStaysInBounds ==
    /\ [](/\ pc # "panic"
          /\ \A k \in 1..Len(backtracking_stack) :
                backtracking_stack[k][1]
                    <= Min(Len(inputs), completed_word_index))
    /\ [][SearchExpand =>
            /\ input_index' < Len(inputs)
            /\ current_state' \notin DOMAIN dfa.transitions =>
                  backtracking_stack' =
                      SubSeq(backtracking_stack, 1, Len(backtracking_stack) - 1)]_vars

\* the index is one greater than the number of words, every word has been
\* consumed, and the search has come to a state without an entry
C26_Witness ==
    /\ pc = "complete"
    /\ inputs # <<>>
    /\ completed_word_index > Len(inputs)
    /\ input_index = Len(inputs)
    /\ current_state \notin DOMAIN dfa.transitions

\* the word lists w1 and w2 have the same words at positions 0..i, or both
\* end before the same position
ClaimAgree(w1, w2, i) ==
    \A k \in 0..i :
        /\ (k < Len(w1)) <=> (k < Len(w2))
        /\ k < Len(w1) => w1[k + 1] = w2[k + 1]

\* C27: get_completions returns the same list for every word list that
\* agrees with the one given on positions 0..completed_word_index, whatever
\* follows; with completed_word_index = 0 the cursor state is the starting
\* state
C27_WordsAfterCursorIgnored ==
    /\ (pc = "done") =>
          \A w \in SeqsUpTo(Words, MaxWords) :
              ClaimAgree(inputs, w, completed_word_index) =>
                  get_completions(dfa, w, completed_word_index, shell) = completions
    /\ (pc \in {"complete", "done"} /\ completed_word_index = 0) =>
          state_id = Some(dfa.starting_state)

\* the cursor is on the first of two different words, and something is
\* proposed
C27_Witness ==
    /\ pc = "done"
    /\ completed_word_index = 0
    /\ Len(inputs) = 2
    /\ inputs[1] # inputs[2]
    /\ completions # <<>>

\* the names of the map that e mentions
ClaimDefinedIn(e, variables) == VariablesOf(e) \cap DOMAIN variables

\* no expression of the map mentions a name of the map
ClaimResolvedDefinitions(variables) ==
    \A n \in DOMAIN variables : ClaimDefinedIn(variables[n], variables) = {}

\* C25: with definitions that are resolved, resolve_variables applied to
\* what resolve_variables returned returns it again, as the same node; and
\* applied to an expression that mentions no defined variable it returns
\* that expression, as the same node
C25_ResolutionIdempotent ==
    (pc = "resolve" /\ ClaimResolvedDefinitions(resolving.vars)) =>
        /\ \A k \in 2..Len(resolving.results) :
              /\ resolving.results[k] = resolving.results[k - 1]
              /\ ~resolving.replaced[k]
        /\ (/\ resolving.results # <<>>
            /\ ClaimDefinedIn(resolving.expr, resolving.vars) = {}) =>
              /\ resolving.results[1] = resolving.expr
              /\ ~resolving.replaced[1]

\* the first call replaced a variable, the second was made on the result
C25_Witness ==
    /\ pc = "resolve"
    /\ ClaimResolvedDefinitions(resolving.vars)
    /\ Len(resolving.results) >= 2
    /\ resolving.replaced[1]
    /\ resolving.results[1] # resolving.expr
    /\ resolving.results[2] = resolving.results[1]

====
